---- MODULE Spec2Model ----
(***************************************************************************)
(* Model of opt_connect.py: one run of main() -- authenticate, enumerate   *)
(* summit ids, fetch detail and usage per id, flatten, bulk insert.        *)
(*                                                                         *)
(* Encoding of Python values:                                              *)
(*   - a dict is a function whose domain is its set of keys;               *)
(*   - a list is a sequence;                                               *)
(*   - a str that the code parses (a date) is a sequence of characters;    *)
(*   - the result of dict.get(key, None), and the two row fields assigned  *)
(*     from it, is <<v>> for a value v and <<>> for None;                  *)
(*   - the body of the enumeration response is tagged with its JSON type,  *)
(*     because fetch_summit_ids behaves differently on a list and a dict.  *)
(***************************************************************************)
EXTENDS Integers, Sequences, FiniteSets, TLC

VARIABLES pc, error, clock, authorization, summit_ids, start, end, idx,
          details, usage, new_row, call, all_rows, log, usage_asked_at,
          insert_calls, table

vars == <<pc, error, clock, authorization, summit_ids, start, end, idx,
          details, usage, new_row, call, all_rows, log, usage_asked_at,
          insert_calls, table>>

(***************************************************************************)
(* Bounds                                                                  *)
(***************************************************************************)
MaxDevices == 2
MaxTicks == 1

(***************************************************************************)
(* Python dict and list primitives                                         *)
(***************************************************************************)
None == <<>>

EmptyDict == <<>>

Get(d, k) == IF k \in DOMAIN d THEN <<d[k]>> ELSE None

SetItem(d, k, v) == [x \in (DOMAIN d) \cup {k} |-> IF x = k THEN v ELSE d[x]]

Pop(d, k) == [x \in (DOMAIN d) \ {k} |-> d[x]]

Update(a, b) ==
    [x \in (DOMAIN a) \cup (DOMAIN b) |-> IF x \in DOMAIN b THEN b[x] ELSE a[x]]

(***************************************************************************)
(* arrow.get(string, 'YYYY-MM-DD')                                         *)
(***************************************************************************)
Digits == <<"0", "1", "2", "3", "4", "5", "6", "7", "8", "9">>

IsDigit(c) == \E n \in 1..10 : Digits[n] = c

DigitVal(c) == (CHOOSE n \in 1..10 : Digits[n] = c) - 1

IsLeap(y) == (y % 4 = 0) /\ ((y % 100 # 0) \/ (y % 400 = 0))

DaysInMonth(y, m) ==
    IF m = 2 THEN (IF IsLeap(y) THEN 29 ELSE 28)
    ELSE IF m \in {4, 6, 9, 11} THEN 30 ELSE 31

MatchesFormat(s) ==
    /\ Len(s) = 10
    /\ \A p \in {1, 2, 3, 4, 6, 7, 9, 10} : IsDigit(s[p])
    /\ s[5] = "-"
    /\ s[8] = "-"

YearOf(s) == 1000 * DigitVal(s[1]) + 100 * DigitVal(s[2])
             + 10 * DigitVal(s[3]) + DigitVal(s[4])

MonthOf(s) == 10 * DigitVal(s[6]) + DigitVal(s[7])

DayOf(s) == 10 * DigitVal(s[9]) + DigitVal(s[10])

arrow_get_unchecked(v) == "ok"

arrow_get(v) ==
    IF v = None THEN "TypeError"
    ELSE LET s == v[1] IN
         IF ~MatchesFormat(s) THEN "ParserError"
         ELSE IF /\ YearOf(s) >= 1
                 /\ MonthOf(s) \in 1..12
                 /\ DayOf(s) \in 1..DaysInMonth(YearOf(s), MonthOf(s))
              THEN "ok"
              ELSE "ParserError"

(***************************************************************************)
(* flatten, statement by statement.  Every step takes the mapping as it    *)
(* stands and gives back [status, d]: the exception raised ("ok" if none)  *)
(* and the mapping as the step left it (flatten works on its argument in   *)
(* place).                                                                 *)
(***************************************************************************)
LiftCustomer_keep(d) ==
    IF "customer" \notin DOMAIN d \/ "name" \notin DOMAIN d["customer"]
    THEN [status |-> "KeyError", d |-> d]
    ELSE LET d1 == SetItem(d, "customer_name", d["customer"]["name"]) IN
         IF "id" \notin DOMAIN d1["customer"]
         THEN [status |-> "KeyError", d |-> d1]
         ELSE [status |-> "ok",
               d |-> SetItem(d1, "customer_id", d1["customer"]["id"])]

LiftCustomer(d) ==
    IF "customer" \notin DOMAIN d \/ "name" \notin DOMAIN d["customer"]
    THEN [status |-> "KeyError", d |-> d]
    ELSE LET d1 == SetItem(d, "customer_name", d["customer"]["name"]) IN
         IF "id" \notin DOMAIN d1["customer"]
         THEN [status |-> "KeyError", d |-> d1]
         ELSE [status |-> "ok",
               d |-> Pop(SetItem(d1, "customer_id", d1["customer"]["id"]),
                         "customer")]

First(s) == s[1]

Last(s) == s[Len(s)]

LiftUsages_last(d) ==
    IF "usages" \notin DOMAIN d
    THEN [status |-> "KeyError", d |-> d]
    ELSE IF d["usages"] # <<>>
         THEN LET d1 == SetItem(d, "data_used_date",
                                Get(Last(d["usages"]), "date"))
                  st == arrow_get(d1["data_used_date"])
              IN  IF st # "ok"
                  THEN [status |-> st, d |-> d1]
                  ELSE [status |-> "ok",
                        d |-> Pop(SetItem(d1, "data_used",
                                          Get(Last(d["usages"]), "dataUsed")),
                                  "usages")]
         ELSE [status |-> "ok",
               d |-> Pop(SetItem(SetItem(d, "data_used_date", None),
                                 "data_used", None),
                         "usages")]

LiftUsages_novalidate(d) ==
    IF "usages" \notin DOMAIN d
    THEN [status |-> "KeyError", d |-> d]
    ELSE IF d["usages"] # <<>>
         THEN LET d1 == SetItem(d, "data_used_date",
                                Get(First(d["usages"]), "date"))
                  st == arrow_get_unchecked(d1["data_used_date"])
              IN  IF st # "ok"
                  THEN [status |-> st, d |-> d1]
                  ELSE [status |-> "ok",
                        d |-> Pop(SetItem(d1, "data_used",
                                          Get(First(d["usages"]), "dataUsed")),
                                  "usages")]
         ELSE [status |-> "ok",
               d |-> Pop(SetItem(SetItem(d, "data_used_date", None),
                                 "data_used", None),
                         "usages")]

LiftUsages(d) ==
    IF "usages" \notin DOMAIN d
    THEN [status |-> "KeyError", d |-> d]
    ELSE IF d["usages"] # <<>>
         THEN LET d1 == SetItem(d, "data_used_date",
                                Get(First(d["usages"]), "date"))
                  st == arrow_get(d1["data_used_date"])
              IN  IF st # "ok"
                  THEN [status |-> st, d |-> d1]
                  ELSE [status |-> "ok",
                        d |-> Pop(SetItem(d1, "data_used",
                                          Get(First(d["usages"]), "dataUsed")),
                                  "usages")]
         ELSE [status |-> "ok",
               d |-> Pop(SetItem(SetItem(d, "data_used_date", None),
                                 "data_used", None),
                         "usages")]

LiftStaticIp(d) ==
    IF "dynamicFields" \notin DOMAIN d
    THEN [status |-> "KeyError", d |-> d]
    ELSE IF Len(d["dynamicFields"]) = 0
         THEN [status |-> "IndexError", d |-> d]
         ELSE IF "key" \notin DOMAIN d["dynamicFields"][1]
              THEN [status |-> "KeyError", d |-> d]
              ELSE IF d["dynamicFields"][1]["key"] = "staticIP"
                   THEN IF "value" \notin DOMAIN d["dynamicFields"][1]
                        THEN [status |-> "KeyError", d |-> d]
                        ELSE [status |-> "ok",
                              d |-> Pop(SetItem(d, "static_ip",
                                                d["dynamicFields"][1]["value"]),
                                        "dynamicFields")]
                   ELSE [status |-> "ok", d |-> Pop(d, "dynamicFields")]

\* flatten(detail): status is the exception raised ("ok" on return), arg is
\* the caller's mapping once the call is over, ret is the returned mapping
\* (the same object as the argument).
flatten(detail) ==
    LET s1 == LiftCustomer(detail) IN
    IF s1.status # "ok" THEN [status |-> s1.status, arg |-> s1.d]
    ELSE LET s2 == LiftUsages(s1.d) IN
         IF s2.status # "ok" THEN [status |-> s2.status, arg |-> s2.d]
         ELSE LET s3 == LiftStaticIp(s2.d) IN
              IF s3.status # "ok" THEN [status |-> s3.status, arg |-> s3.d]
              ELSE [status |-> "ok", arg |-> s3.d, ret |-> s3.d]

(***************************************************************************)
(* The as-of date window, line 133:                                        *)
(* arrow.utcnow().to('US/Pacific').shift(days=-1).format('YYYY-MM-DD').    *)
(* The clock counts hours of UTC; a formatted date is the number of its    *)
(* calendar day.                                                           *)
(***************************************************************************)
HoursPerDay == 24

PacificOffsetHours == 8

PacificDay(t) == (t - PacificOffsetHours) \div HoursPerDay

Yesterday(t) == PacificDay(t) - 1

\* One hour before midnight in US/Pacific.
InitClock == 2 * HoursPerDay + PacificOffsetHours - 1

(***************************************************************************)
(* What the provider may answer                                            *)
(***************************************************************************)
Ids == {81056, 81057}

IdLists == UNION {[1..n -> Ids] : n \in 0..MaxDevices}

AuthResponses ==
    << [apiKey |-> "key", token |-> "tok"],
       [token |-> "tok"],
       [message |-> "Unauthorized"] >>

DeviceList(ids) ==
    [type |-> "list", body |-> [k \in 1..Len(ids) |-> [summitId |-> ids[k]]]]

BadListResponses ==
    << [type |-> "dict", body |-> [message |-> "Forbidden"]],
       [type |-> "dict", body |-> [code |-> 403]],
       [type |-> "dict", body |-> EmptyDict],
       [type |-> "list", body |-> << [serialNumber |-> "70B3D5D3B93A"] >>] >>

Customer == [id |-> 3384, name |-> "Byte Foods-OC"]

DynamicFieldsChoices ==
    << << [key |-> "staticIP", value |-> "10.145.188.51"] >>,
       << [key |-> "otherKey", value |-> "x"] >>,
       << [key |-> "otherKey", value |-> "x"],
          [key |-> "staticIP", value |-> "10.145.188.51"] >>,
       << >> >>

DetailResponses(id) ==
    [n \in 1..Len(DynamicFieldsChoices) |->
        [summitId |-> id, carrier |-> "Verizon", customer |-> Customer,
         dynamicFields |-> DynamicFieldsChoices[n], dataPlan |-> 104857600]]
    \o << [message |-> "Device not found"] >>

D_2018_05_08 == <<"2", "0", "1", "8", "-", "0", "5", "-", "0", "8">>

D_2018_13_40 == <<"2", "0", "1", "8", "-", "1", "3", "-", "4", "0">>

D_2018_02_29 == <<"2", "0", "1", "8", "-", "0", "2", "-", "2", "9">>

D_2020_02_29 == <<"2", "0", "2", "0", "-", "0", "2", "-", "2", "9">>

D_slashes == <<"2", "0", "1", "8", "/", "0", "5", "/", "0", "8">>

UsageResponses ==
    << [usages |-> << >>],
       [usages |-> << [date |-> D_2018_05_08, dataUsed |-> 43063500] >>,
        dataPlan |-> 0],
       [usages |-> << [date |-> D_2018_05_08, dataUsed |-> 43063500],
                      [date |-> D_2018_13_40, dataUsed |-> 7] >>],
       [usages |-> << [date |-> D_2020_02_29],
                      [date |-> D_2018_05_08, dataUsed |-> 43063500] >>],
       [usages |-> << [date |-> D_2018_13_40, dataUsed |-> 43063500] >>],
       [usages |-> << [date |-> D_2018_02_29, dataUsed |-> 43063500] >>],
       [usages |-> << [date |-> D_slashes, dataUsed |-> 43063500] >>],
       [usages |-> << [dataUsed |-> 43063500] >>],
       [message |-> "Device not found"] >>

(***************************************************************************)
(* The run                                                                 *)
(***************************************************************************)
Init ==
    /\ pc = "main"
    /\ error = [type |-> "none"]
    /\ clock = InitClock
    /\ authorization = <<>>
    /\ summit_ids = <<>>
    /\ start = 0
    /\ end = 0
    /\ idx = 0
    /\ details = EmptyDict
    /\ usage = EmptyDict
    /\ new_row = EmptyDict
    /\ call = [status |-> "none"]
    /\ all_rows = <<>>
    /\ log = <<>>
    /\ usage_asked_at = InitClock
    /\ insert_calls = 0
    /\ table = <<>>

\* An exception leaves main: nothing else runs.
Raise(exc) ==
    /\ pc' = "failed"
    /\ error' = exc

Exc(type) == [type |-> type]

\* requests.request(...).json() failing: no connection, or a body that is
\* not JSON.
RequestFails(req) ==
    /\ log' = Append(log, req)
    /\ Raise(Exc("RequestException"))

\* Lines 33-42.
fetch_auth_result(response) ==
    IF "token" \notin DOMAIN response \/ "apiKey" \notin DOMAIN response
    THEN [status |-> "KeyError"]
    ELSE [status |-> "ok", ret |-> <<response["apiKey"], response["token"]>>]

fetch_auth ==
    /\ pc = "main"
    /\ \/ /\ RequestFails([op |-> "auth"])
          /\ UNCHANGED authorization
       \/ \E n \in 1..Len(AuthResponses) :
            LET r == fetch_auth_result(AuthResponses[n]) IN
            /\ log' = Append(log, [op |-> "auth"])
            /\ IF r.status = "ok"
               THEN /\ authorization' = r.ret
                    /\ pc' = "authed"
                    /\ UNCHANGED error
               ELSE /\ Raise(Exc(r.status))
                    /\ UNCHANGED authorization
    /\ UNCHANGED <<clock, summit_ids, start, end, idx, details, usage, new_row,
                   call, all_rows, insert_calls, table, usage_asked_at>>

\* Lines 58-63: the comprehension over the response and its except clause.
fetch_summit_ids_result(response) ==
    IF response.type = "list"
    THEN IF \E k \in 1..Len(response.body) :
               "summitId" \notin DOMAIN response.body[k]
         THEN [status |-> "KeyError"]
         ELSE [status |-> "ok",
               ret |-> [k \in 1..Len(response.body) |-> response.body[k]["summitId"]]]
    ELSE \* a dict: iteration yields its keys, and indexing a str by
         \* 'summitId' raises TypeError
         IF DOMAIN response.body = {}
         THEN [status |-> "ok", ret |-> <<>>]
         ELSE [status |-> "OptConnectAPIException",
               msg |-> IF "message" \in DOMAIN response.body
                       THEN response.body["message"]
                       ELSE "TypeError"]

fetch_summit_ids_with(response) ==
    LET r == fetch_summit_ids_result(response) IN
    /\ log' = Append(log, [op |-> "list", resp |-> response])
    /\ IF r.status = "ok"
       THEN /\ summit_ids' = r.ret
            /\ pc' = "enumerated"
            /\ UNCHANGED error
       ELSE /\ Raise(IF r.status = "OptConnectAPIException"
                     THEN [type |-> r.status, msg |-> r.msg]
                     ELSE Exc(r.status))
            /\ UNCHANGED summit_ids

fetch_summit_ids ==
    /\ pc = "authed"
    /\ \/ /\ RequestFails([op |-> "list"])
          /\ UNCHANGED summit_ids
       \/ \E ids \in IdLists : fetch_summit_ids_with(DeviceList(ids))
       \/ \E n \in 1..Len(BadListResponses) :
            fetch_summit_ids_with(BadListResponses[n])
    /\ UNCHANGED <<clock, authorization, start, end, idx, details, usage,
                   new_row, call, all_rows, insert_calls, table, usage_asked_at>>

\* Lines 132-133: the batch starts empty and the window is taken from the
\* clock, once, before the loop.
enter_fetch_detailed_info ==
    /\ pc = "enumerated"
    /\ all_rows' = <<>>
    /\ start' = Yesterday(clock)
    /\ end' = Yesterday(clock)
    /\ idx' = 1
    /\ pc' = "loop"
    /\ UNCHANGED <<error, clock, authorization, summit_ids, details, usage,
                   new_row, call, log, insert_calls, table, usage_asked_at>>

\* Lines 135-141: the detail request of the current summit id.
get_details ==
    /\ pc = "loop"
    /\ idx <= Len(summit_ids)
    /\ LET id == summit_ids[idx]
           req == [op |-> "detail", id |-> id] IN
       \/ /\ RequestFails(req)
          /\ UNCHANGED details
       \/ \E n \in 1..Len(DetailResponses(id)) :
            /\ details' = DetailResponses(id)[n]
            /\ log' = Append(log, [op |-> "detail", id |-> id,
                                   resp |-> DetailResponses(id)[n]])
            /\ pc' = "usage"
            /\ UNCHANGED error
    /\ UNCHANGED <<clock, authorization, summit_ids, start, end, idx, usage,
                   new_row, call, all_rows, insert_calls, table, usage_asked_at>>

\* Line 147: the range the usage request carries.
RequestWindow_per_request == [start |-> Yesterday(clock), end |-> Yesterday(clock)]

RequestWindow == [start |-> start, end |-> end]

\* Lines 143-152: the usage request of the current summit id.
get_usage_reuse ==
    /\ pc = "usage"
    /\ usage_asked_at' = clock
    /\ LET id == summit_ids[idx]
           req == [op |-> "usage", id |-> id,
                   start |-> RequestWindow.start, end |-> RequestWindow.end] IN
       \/ /\ RequestFails(req)
          /\ UNCHANGED usage
       \/ /\ idx > 1
          /\ pc' = "merge"
          /\ UNCHANGED <<usage, log, error>>
       \/ \E n \in 1..Len(UsageResponses) :
            /\ idx = 1
            /\ usage' = UsageResponses[n]
            /\ log' = Append(log, [op |-> "usage", id |-> id,
                                   start |-> RequestWindow.start,
                                   end |-> RequestWindow.end,
                                   resp |-> UsageResponses[n]])
            /\ pc' = "merge"
            /\ UNCHANGED error
    /\ UNCHANGED <<clock, authorization, summit_ids, start, end, idx, details,
                   new_row, call, all_rows, insert_calls, table>>

get_usage ==
    /\ pc = "usage"
    /\ usage_asked_at' = clock
    /\ LET id == summit_ids[idx]
           req == [op |-> "usage", id |-> id,
                   start |-> RequestWindow.start, end |-> RequestWindow.end] IN
       \/ /\ RequestFails(req)
          /\ UNCHANGED usage
       \/ \E n \in 1..Len(UsageResponses) :
            /\ usage' = UsageResponses[n]
            /\ log' = Append(log, [op |-> "usage", id |-> id,
                                   start |-> RequestWindow.start,
                                   end |-> RequestWindow.end,
                                   resp |-> UsageResponses[n]])
            /\ pc' = "merge"
            /\ UNCHANGED error
    /\ UNCHANGED <<clock, authorization, summit_ids, start, end, idx, details,
                   new_row, call, all_rows, insert_calls, table>>

\* Lines 153-155.
Merge(d, u) == Update(Update(EmptyDict, d), u)

\* Line 156, all_rows.append(...).
AppendRow_replace(rows, row) == <<row>>

AppendRow(rows, row) == Append(rows, row)

\* Lines 153-156: merge, flatten, append; an exception of flatten leaves the
\* loop and the function.
merge_flatten_swallow ==
    /\ pc = "merge"
    /\ LET r == flatten(Merge(details, usage)) IN
       /\ call' = IF r.status = "ok"
                  THEN [arg |-> Merge(details, usage), status |-> "ok",
                        ret |-> r.ret]
                  ELSE [arg |-> Merge(details, usage), status |-> r.status]
       /\ new_row' = r.arg
       /\ all_rows' = IF r.status = "ok" THEN AppendRow(all_rows, r.ret)
                      ELSE all_rows
       /\ idx' = idx + 1
       /\ pc' = "loop"
       /\ UNCHANGED error
    /\ UNCHANGED <<clock, authorization, summit_ids, start, end, details, usage,
                   log, insert_calls, table, usage_asked_at>>

merge_flatten ==
    /\ pc = "merge"
    /\ LET r == flatten(Merge(details, usage)) IN
       /\ call' = IF r.status = "ok"
                  THEN [arg |-> Merge(details, usage), status |-> "ok",
                        ret |-> r.ret]
                  ELSE [arg |-> Merge(details, usage), status |-> r.status]
       /\ new_row' = r.arg
       /\ IF r.status = "ok"
          THEN /\ all_rows' = AppendRow(all_rows, r.ret)
               /\ idx' = idx + 1
               /\ pc' = "loop"
               /\ UNCHANGED error
          ELSE /\ Raise(Exc(r.status))
               /\ UNCHANGED <<all_rows, idx>>
    /\ UNCHANGED <<clock, authorization, summit_ids, start, end, details, usage,
                   log, insert_calls, table, usage_asked_at>>

\* Line 157.
return_all_rows ==
    /\ pc = "loop"
    /\ idx > Len(summit_ids)
    /\ pc' = "fetched"
    /\ UNCHANGED <<error, clock, authorization, summit_ids, start, end, idx,
                   details, usage, new_row, call, all_rows, log, insert_calls,
                   table, usage_asked_at>>

\* Lines 160-193: one INSERT statement with every row; the statement either
\* stores all of them or raises and stores none.
insert_info ==
    /\ pc = "fetched"
    /\ insert_calls' = insert_calls + 1
    /\ \/ /\ table' = table \o all_rows
          /\ pc' = "done"
          /\ UNCHANGED error
       \/ /\ Raise(Exc("StorageError"))
          /\ UNCHANGED table
    /\ UNCHANGED <<clock, authorization, summit_ids, start, end, idx, details,
                   usage, new_row, call, all_rows, log, usage_asked_at>>

\* Time passes while the run is under way.
Tick ==
    /\ pc \notin {"done", "failed"}
    /\ clock < InitClock + MaxTicks
    /\ clock' = clock + 1
    /\ UNCHANGED <<pc, error, authorization, summit_ids, start, end, idx,
                   details, usage, new_row, call, all_rows, log, insert_calls,
                   table, usage_asked_at>>

\* Lines 200-204.
main ==
    \/ fetch_auth
    \/ fetch_summit_ids
    \/ enter_fetch_detailed_info
    \/ get_details
    \/ get_usage
    \/ merge_flatten
    \/ return_all_rows
    \/ insert_info

Next == main \/ Tick

Spec == Init /\ [][Next]_vars

(***************************************************************************)
(* Properties                                                              *)
(***************************************************************************)
Returned == pc \in {"fetched", "done"} \/ insert_calls > 0

Called == call.status # "none"

Nested == {"customer", "usages", "dynamicFields"}

Derived == {"customer_name", "customer_id", "data_used_date", "data_used",
            "static_ip"}

UsageEntries == {k \in 1..Len(log) : log[k].op = "usage"}

\* C1: once fetch_detailed_info has returned, all_rows has one row per
\* enumerated summit id, and the k-th row is the flatten of the merge of the
\* detail and usage responses that were fetched for the k-th id.
C1_OneRowPerId ==
    Returned =>
        /\ Len(all_rows) = Len(summit_ids)
        /\ \A k \in 1..Len(summit_ids) :
             LET d == log[2 * k + 1]
                 u == log[2 * k + 2] IN
             /\ d.op = "detail" /\ d.id = summit_ids[k]
             /\ u.op = "usage" /\ u.id = summit_ids[k]
             /\ flatten(Merge(d.resp, u.resp)).status = "ok"
             /\ all_rows[k] = flatten(Merge(d.resp, u.resp)).ret

C1_Witness ==
    /\ pc = "fetched"
    /\ Len(summit_ids) = 2
    /\ summit_ids[1] = summit_ids[2]
    /\ all_rows[1] # all_rows[2]

\* C2: insert_info is invoked at most once, only with a batch that holds a
\* row for every enumerated id after both requests of every id were made;
\* a run that ended in an error has stored nothing.
C2_AllOrNothing ==
    /\ insert_calls <= 1
    /\ (pc = "fetched" \/ insert_calls = 1) =>
          /\ log[2].op = "list"
          /\ "resp" \in DOMAIN log[2]
          /\ Len(all_rows) = Len(summit_ids)
          /\ Len(log) = 2 + 2 * Len(summit_ids)
    /\ error.type # "none" => pc = "failed" /\ table = <<>>
    /\ Len(table) \in {0, Len(summit_ids)}

C2_Witness ==
    /\ pc = "failed"
    /\ error.type \notin {"none", "RequestException", "StorageError"}
    /\ Len(all_rows) = 1
    /\ Len(summit_ids) = 2
    /\ insert_calls = 0
    /\ table = <<>>

\* C3: for a merged input whose dynamicFields is empty or whose first
\* dynamic field is not keyed "staticIP", flatten does not fail on the
\* dynamic fields and the row it returns has no static_ip key.
C3_NoStaticIp ==
    (/\ Called
     /\ "dynamicFields" \in DOMAIN call.arg
     /\ \/ call.arg["dynamicFields"] = <<>>
        \/ call.arg["dynamicFields"][1]["key"] # "staticIP")
    => /\ call.status # "IndexError"
       /\ call.status = "ok" => "static_ip" \notin DOMAIN call.ret

\* C4: a row returned for a merged input with usages has data_used_date
\* and data_used taken from the first usage entry; a row returned for an
\* input with no usages has None in both.
C4_FirstUsage ==
    (Called /\ call.status = "ok") =>
        IF call.arg["usages"] # <<>>
        THEN LET u == call.arg["usages"][1] IN
             /\ call.ret["data_used_date"] = <<u["date"]>>
             /\ call.ret["data_used"] =
                    (IF "dataUsed" \in DOMAIN u THEN <<u["dataUsed"]>> ELSE None)
        ELSE /\ call.ret["data_used_date"] = None
             /\ call.ret["data_used"] = None

C4_Witness ==
    /\ Called
    /\ call.status = "ok"
    /\ Len(call.arg["usages"]) = 2
    /\ call.arg["usages"][2] # call.arg["usages"][1]
    /\ call.ret["data_used"] = <<43063500>>

\* C5: when the enumeration response is an error object, the run fails
\* with OptConnectAPIException carrying the message of the response when it
\* has one, before any detail or usage request and before any insert.
C5_ErrorObjectRaises ==
    (/\ Len(log) >= 2
     /\ "resp" \in DOMAIN log[2]
     /\ log[2].resp.type = "dict")
    => /\ pc = "failed"
       /\ error.type = "OptConnectAPIException"
       /\ "message" \in DOMAIN log[2].resp.body =>
              error.msg = log[2].resp.body["message"]
       /\ Len(log) = 2
       /\ insert_calls = 0

\* C6: a row returned by flatten has none of customer, usages,
\* dynamicFields, has customer_name and customer_id of the input's customer,
\* and has every other key of the input with the value the input had.
C6_Lifted ==
    (Called /\ call.status = "ok") =>
        /\ DOMAIN call.ret \cap Nested = {}
        /\ call.ret["customer_name"] = call.arg["customer"]["name"]
        /\ call.ret["customer_id"] = call.arg["customer"]["id"]
        /\ \A k \in DOMAIN call.arg \ (Nested \cup Derived) :
             k \in DOMAIN call.ret /\ call.ret[k] = call.arg[k]

C6_Witness ==
    /\ Called
    /\ call.status = "ok"
    /\ call.ret["customer_id"] = 3384
    /\ call.ret["summitId"] \in Ids
    /\ "static_ip" \in DOMAIN call.ret

\* The dates of the responses that are calendar dates written YYYY-MM-DD.
IsoDates == {D_2018_05_08, D_2020_02_29}

BadFirstDate ==
    /\ Called
    /\ "usages" \in DOMAIN call.arg
    /\ call.arg["usages"] # <<>>
    /\ "date" \in DOMAIN call.arg["usages"][1]
    /\ call.arg["usages"][1]["date"] \notin IsoDates

\* C7: when the date of the first usage entry is not an ISO calendar date,
\* flatten raises (the parser's error when it gets as far as the date), the
\* run has failed, insert_info is not invoked and nothing is stored.
C7_BadDateAborts ==
    BadFirstDate =>
        /\ call.status # "ok"
        /\ "customer" \in DOMAIN call.arg => call.status = "ParserError"
        /\ pc = "failed"
        /\ error.type = call.status
        /\ insert_calls = 0
        /\ table = <<>>

C7_Witness ==
    /\ BadFirstDate
    /\ call.status = "ParserError"
    /\ Len(all_rows) = 1
    /\ pc = "failed"

\* C8: every usage request of a run carries the window taken before the
\* loop, with start = end, whatever the clock said when it was issued.
C8_FrozenWindow ==
    /\ \A j \in UsageEntries :
         /\ log[j].start = start
         /\ log[j].end = end
         /\ log[j].start = log[j].end
    /\ \A j, k \in UsageEntries :
         log[j].start = log[k].start /\ log[j].end = log[k].end

C8_Witness ==
    /\ Cardinality(UsageEntries) >= 2
    /\ Yesterday(usage_asked_at) # start

\* C9: flatten leaves the mapping passed to it as it was.
C9_ArgumentUnchanged ==
    Called => new_row = call.arg

\* C10: the requests of a run are auth, list, then detail and usage of each
\* id in list order; the requests of an id are issued only when the rows of
\* all earlier ids are in the batch, each row in the batch has cost exactly
\* two requests, and the insert comes after all of them.
C10_Sequential ==
    /\ \A j \in 1..Len(log) :
         IF j = 1 THEN log[j].op = "auth"
         ELSE IF j = 2 THEN log[j].op = "list"
         ELSE /\ log[j].op = (IF j % 2 = 1 THEN "detail" ELSE "usage")
              /\ (j - 1) \div 2 <= Len(summit_ids)
              /\ log[j].id = summit_ids[(j - 1) \div 2]
    /\ Len(log) > 2 =>
         /\ Len(log) - 2 >= 2 * Len(all_rows)
         /\ Len(log) - 2 <= 2 * (Len(all_rows) + 1)
    /\ Len(log) <= 2 => all_rows = <<>>
    /\ insert_calls > 0 => Len(log) = 2 + 2 * Len(summit_ids)

C10_Witness ==
    /\ pc = "done"
    /\ Len(summit_ids) = 2
    /\ summit_ids[1] # summit_ids[2]
    /\ Len(log) = 6
    /\ Len(table) = 2

====
